---- MODULE Spec2Model ----
(***************************************************************************)
(* The two validation orchestrators of the Antigravity Kit:                *)
(*   .agent/scripts/checklist.py   ("core" mode, the master checklist)     *)
(*   .agent/scripts/verify_all.py  ("full" mode, the verification suite)   *)
(* One run of one orchestrator is modelled from the call of main() to the  *)
(* sys.exit that ends it.  A check script is an external process: whether  *)
(* its file exists and how its process ends are chosen by the environment  *)
(* when the check is run.                                                  *)
(***************************************************************************)
EXTENDS Integers, Sequences, FiniteSets, TLC

\* ------------------------------------------------------------------ bounds

\* At most this many checks of one run end otherwise than by a silent exit 0.
MaxFaults == 2

\* ------------------------------------------------------------- Python values

\* Python's None (an option not given, a dict key that is absent).
None == "<None>"

\* The truth value Python gives a string or None in `if x` / `not x`.
Truthy(x) == x # None /\ x # ""

\* The process has not called sys.exit yet.
NoExit == -1

\* ------------------------------------------------------------------ catalogs

\* A catalog in which the Lint Check is marked optional.
CORE_CHECKS_lintoptional ==
    << [name |-> "Security Scan",     script |-> "security_scan.py",    required |-> TRUE],
       [name |-> "Lint Check",        script |-> "lint_runner.py",      required |-> FALSE],
       [name |-> "Schema Validation", script |-> "schema_validator.py", required |-> FALSE],
       [name |-> "Test Runner",       script |-> "test_runner.py",      required |-> FALSE],
       [name |-> "UX Audit",          script |-> "ux_audit.py",         required |-> FALSE] >>

\* checklist.py: CORE_CHECKS, (name, script file, required).
CORE_CHECKS ==
    << [name |-> "Security Scan",     script |-> "security_scan.py",    required |-> TRUE],
       [name |-> "Lint Check",        script |-> "lint_runner.py",      required |-> TRUE],
       [name |-> "Schema Validation", script |-> "schema_validator.py", required |-> FALSE],
       [name |-> "Test Runner",       script |-> "test_runner.py",      required |-> FALSE],
       [name |-> "UX Audit",          script |-> "ux_audit.py",         required |-> FALSE] >>

\* checklist.py: PERFORMANCE_CHECKS.
PERFORMANCE_CHECKS ==
    << [name |-> "Lighthouse Audit", script |-> "lighthouse_audit.py",  required |-> TRUE],
       [name |-> "Playwright E2E",   script |-> "playwright_runner.py", required |-> FALSE] >>

\* verify_all.py: VERIFICATION_SUITE; requires_url is suite.get("requires_url", False).
VERIFICATION_SUITE ==
    << [category |-> "Security", requires_url |-> FALSE, checks |->
          << [name |-> "Security Scan", script |-> "security_scan.py", required |-> TRUE] >>],
       [category |-> "Code Quality", requires_url |-> FALSE, checks |->
          << [name |-> "Lint Check",    script |-> "lint_runner.py",   required |-> TRUE],
             [name |-> "Type Coverage", script |-> "type_coverage.py", required |-> FALSE] >>],
       [category |-> "Data Layer", requires_url |-> FALSE, checks |->
          << [name |-> "Schema Validation", script |-> "schema_validator.py", required |-> FALSE] >>],
       [category |-> "Testing", requires_url |-> FALSE, checks |->
          << [name |-> "Test Suite", script |-> "test_runner.py", required |-> FALSE] >>],
       [category |-> "UX & Accessibility", requires_url |-> FALSE, checks |->
          << [name |-> "UX Audit",            script |-> "ux_audit.py",              required |-> FALSE],
             [name |-> "Accessibility Check", script |-> "accessibility_checker.py", required |-> FALSE] >>],
       [category |-> "Performance", requires_url |-> TRUE, checks |->
          << [name |-> "Lighthouse Audit", script |-> "lighthouse_audit.py", required |-> TRUE] >>],
       [category |-> "E2E Testing", requires_url |-> TRUE, checks |->
          << [name |-> "Playwright E2E", script |-> "playwright_runner.py", required |-> FALSE] >>] >>

\* ------------------------------------------------------------- environment

\* How the environment answers one call of run_script: the script file is
\* absent, or subprocess.run returns (returncode, stderr), or it raises
\* TimeoutExpired, or it raises another exception.
ProcOutcomes ==
    { [kind |-> "absent",  rc |-> 0, stderr |-> ""],
      [kind |-> "timeout", rc |-> 0, stderr |-> ""],
      [kind |-> "raised",  rc |-> 0, stderr |-> "[Errno 13] Permission denied"] }
    \cup { [kind |-> "exit", rc |-> c, stderr |-> s] : c \in {0, 1}, s \in {"", "stderr text"} }

Quiet(p) == p.kind = "exit" /\ p.rc = 0 /\ p.stderr = ""

RECURSIVE Faults(_)
Faults(ps) == IF ps = << >> THEN 0
              ELSE (IF Quiet(Head(ps)) THEN 0 ELSE 1) + Faults(Tail(ps))

\* The URLs a run is given: --url absent, --url "", --url <address>.
Urls == {None, "", "http://localhost:3000"}

VARIABLES
    mode,       \* "core": checklist.py, "full": verify_all.py
    args,       \* the run's settings (argparse namespace; see Init)
    pc,         \* where main() is
    cat,        \* full: index of the suite (category) of the outer loop
    idx,        \* index of the next check of the loop being run
    results,    \* main's list `results`
    procs,      \* what the environment did at each run_script call (history)
    cmds,       \* the argument vectors built by run_script (history)
    reports,    \* the result lists handed to print_summary / print_final_report
    verdict,    \* what that report returned: "passed" / "failed"; None before
    aborted,    \* the run left through the "CRITICAL ... Stopping" branch
    children,   \* the checks whose child process subprocess.run is waiting for
    exit_code   \* the argument of sys.exit; NoExit while running

vars == << mode, args, pc, cat, idx, results, procs, cmds, reports, verdict, aborted, children, exit_code >>

\* ------------------------------------------------------------- run_script

\* A run_script that appends the URL whatever the script is.
UrlAware_anyscript(script) == TRUE

\* `"lighthouse" in script_path.name.lower() or "playwright" in ...`.
UrlAware(script) == script \in {"lighthouse_audit.py", "playwright_runner.py"}

\* The command run_script builds: ["python", script, project_path] and the
\* URL appended for a URL-aware script when a URL was passed.
BuildCmd(script, url) ==
    IF Truthy(url) /\ UrlAware(script)
    THEN << "python", script, "<project>", url >>
    ELSE << "python", script, "<project>" >>

\* A run_script whose handler of an exception swallows it.
checklist_run_script_swallows(name, p) ==
    IF p.kind = "absent"
    THEN [name |-> name, passed |-> TRUE, skipped |-> TRUE, error |-> None, category |-> None]
    ELSE IF p.kind = "exit"
    THEN [name |-> name, passed |-> (p.rc = 0), skipped |-> FALSE, error |-> p.stderr, category |-> None]
    ELSE IF p.kind = "timeout"
    THEN [name |-> name, passed |-> FALSE, skipped |-> FALSE, error |-> "Timeout", category |-> None]
    ELSE [name |-> name, passed |-> TRUE, skipped |-> FALSE, error |-> "", category |-> None]

\* A run_script that records a non-zero exit without its stderr.
checklist_run_script_nostderr(name, p) ==
    IF p.kind = "absent"
    THEN [name |-> name, passed |-> TRUE, skipped |-> TRUE, error |-> None, category |-> None]
    ELSE IF p.kind = "exit"
    THEN [name |-> name, passed |-> (p.rc = 0), skipped |-> FALSE, error |-> "", category |-> None]
    ELSE IF p.kind = "timeout"
    THEN [name |-> name, passed |-> FALSE, skipped |-> FALSE, error |-> "Timeout", category |-> None]
    ELSE [name |-> name, passed |-> FALSE, skipped |-> FALSE, error |-> p.stderr, category |-> None]

\* A run_script that reports a missing script as a failed check.
checklist_run_script_missingfails(name, p) ==
    IF p.kind = "absent"
    THEN [name |-> name, passed |-> FALSE, skipped |-> FALSE, error |-> "Script not found", category |-> None]
    ELSE IF p.kind = "exit"
    THEN [name |-> name, passed |-> (p.rc = 0), skipped |-> FALSE, error |-> p.stderr, category |-> None]
    ELSE IF p.kind = "timeout"
    THEN [name |-> name, passed |-> FALSE, skipped |-> FALSE, error |-> "Timeout", category |-> None]
    ELSE [name |-> name, passed |-> FALSE, skipped |-> FALSE, error |-> p.stderr, category |-> None]

\* checklist.py run_script: the dict it returns, given what the environment
\* does.  A key the dict does not have is None.  ("output" is read nowhere.)
checklist_run_script(name, p) ==
    IF p.kind = "absent"
    THEN [name |-> name, passed |-> TRUE, skipped |-> TRUE, error |-> None, category |-> None]
    ELSE IF p.kind = "exit"
    THEN [name |-> name, passed |-> (p.rc = 0), skipped |-> FALSE, error |-> p.stderr, category |-> None]
    ELSE IF p.kind = "timeout"
    THEN [name |-> name, passed |-> FALSE, skipped |-> FALSE, error |-> "Timeout", category |-> None]
    ELSE [name |-> name, passed |-> FALSE, skipped |-> FALSE, error |-> p.stderr, category |-> None]

\* A run_script that records a timeout like a missing script.
verify_run_script_timeoutskipped(name, category, p) ==
    IF p.kind = "absent" \/ p.kind = "timeout"
    THEN [name |-> name, passed |-> TRUE, skipped |-> TRUE, error |-> None, category |-> category]
    ELSE IF p.kind = "exit"
    THEN [name |-> name, passed |-> (p.rc = 0), skipped |-> FALSE, error |-> p.stderr, category |-> category]
    ELSE [name |-> name, passed |-> FALSE, skipped |-> FALSE, error |-> p.stderr, category |-> category]

\* verify_all.py run_script, with main's `result["category"] = category`.
\* ("output" and "duration" decide nothing but display.)
verify_run_script(name, category, p) ==
    IF p.kind = "absent"
    THEN [name |-> name, passed |-> TRUE, skipped |-> TRUE, error |-> None, category |-> category]
    ELSE IF p.kind = "exit"
    THEN [name |-> name, passed |-> (p.rc = 0), skipped |-> FALSE, error |-> p.stderr, category |-> category]
    ELSE IF p.kind = "timeout"
    THEN [name |-> name, passed |-> FALSE, skipped |-> FALSE, error |-> "Timeout", category |-> category]
    ELSE [name |-> name, passed |-> FALSE, skipped |-> FALSE, error |-> p.stderr, category |-> category]

\* The history of commands: a command is built only past the existence test.
LogCmd(log, name, script, url) ==
    Append(log, [name |-> name, argv |-> BuildCmd(script, url)])

\* A launch that does not wait for the child (Popen without wait).
Reap_nowait(running, name) == running

\* subprocess.run returns only when the child has ended: it waits for it, and
\* at the timeout it kills the child and waits again before it raises.
Reap(running, name) == running \ {name}

\* ----------------------------------------------------------------- reports

\* A count of the passed that leaves out `and not r.get("skipped")`.
passed_count_withskipped(rs) == Len(SelectSeq(rs, LAMBDA r : r.passed))

\* sum(1 for r in results if r["passed"] and not r.get("skipped"))
RECURSIVE passed_count(_)
passed_count(rs) ==
    IF rs = << >> THEN 0
    ELSE (IF Head(rs).passed /\ ~Head(rs).skipped THEN 1 ELSE 0) + passed_count(Tail(rs))

\* sum(1 for r in results if not r["passed"] and not r.get("skipped"))
RECURSIVE failed_count(_)
failed_count(rs) ==
    IF rs = << >> THEN 0
    ELSE (IF ~Head(rs).passed /\ ~Head(rs).skipped THEN 1 ELSE 0) + failed_count(Tail(rs))

\* sum(1 for r in results if r.get("skipped"))
RECURSIVE skipped_count(_)
skipped_count(rs) ==
    IF rs = << >> THEN 0
    ELSE (IF Head(rs).skipped THEN 1 ELSE 0) + skipped_count(Tail(rs))

\* A summary that takes a skipped check for a failed one.
print_summary_skipfails(rs) == ~(failed_count(rs) + skipped_count(rs) > 0)

\* checklist.py print_summary: its return value (False iff failed_count > 0).
print_summary(rs) == ~(failed_count(rs) > 0)

\* verify_all.py print_final_report, lines 161-163: passed, failed, skipped.
RECURSIVE report_passed(_)
report_passed(rs) ==
    IF rs = << >> THEN 0
    ELSE (IF Head(rs).passed /\ ~Head(rs).skipped THEN 1 ELSE 0) + report_passed(Tail(rs))

RECURSIVE report_failed(_)
report_failed(rs) ==
    IF rs = << >> THEN 0
    ELSE (IF ~Head(rs).passed /\ ~Head(rs).skipped THEN 1 ELSE 0) + report_failed(Tail(rs))

RECURSIVE report_skipped(_)
report_skipped(rs) ==
    IF rs = << >> THEN 0
    ELSE (IF Head(rs).skipped THEN 1 ELSE 0) + report_skipped(Tail(rs))

\* verify_all.py print_final_report: its return value (False iff failed > 0).
print_final_report(rs) == ~(report_failed(rs) > 0)

VerdictOf(ok) == IF ok THEN "passed" ELSE "failed"

\* The test both reports use for a failed result.
IsFailure(r) == ~r.passed /\ ~r.skipped

\* checklist.py print_summary, lines 106-144: the failure-detail lines it
\* prints.  It prints the counts, one table row per result and the verdict
\* line, and nothing of a result's "error".
summary_detail_lines(rs) == << >>

\* verify_all.py print_final_report, lines 203-211: the names under which an
\* "Error: <first 200 characters>" line is printed: the failed results whose
\* "error" is truthy, in the order of the list.
report_detail_lines(rs) ==
    LET shown == SelectSeq(rs, LAMBDA r : IsFailure(r) /\ Truthy(r.error))
    IN [i \in 1..Len(shown) |-> shown[i].name]

\* verify_all.py print_final_report, lines 205-207: the "- <name>" lines
\* under FAILED CHECKS, one for each failed result.
report_failed_names(rs) ==
    LET shown == SelectSeq(rs, IsFailure)
    IN [i \in 1..Len(shown) |-> shown[i].name]

\* ------------------------------------------------------------ loop items

\* checklist.py line 178: the i-th item of `for ... in CORE_CHECKS`.
CoreItem(i) == CORE_CHECKS[i]

\* A performance loop that walks CORE_CHECKS again.
PerfItem_corelist(i) == CORE_CHECKS[i]

\* checklist.py line 192: the i-th item of `for ... in PERFORMANCE_CHECKS`.
PerfItem(i) == PERFORMANCE_CHECKS[i]

\* A loop that walks the suites from the last to the first.
SuiteItem_reversed(k) == VERIFICATION_SUITE[Len(VERIFICATION_SUITE) + 1 - k]

\* verify_all.py line 255: the k-th item of `for suite in VERIFICATION_SUITE`.
SuiteItem(k) == VERIFICATION_SUITE[k]

\* ------------------------------------------------------------ abort tests

\* A stop test that forgets the required flag.
CoreStops_anyfail(required, r) == ~r.passed /\ ~r.skipped

\* A stop test that lost the `not` before result.get("skipped").
CoreStops_lostnot(required, r) == required /\ ~r.passed /\ r.skipped

\* A stop test that takes a missing required script for a failure.
CoreStops_onskip(required, r) == required /\ (~r.passed \/ r.skipped)

\* checklist.py line 184: `required and not result["passed"] and not result.get("skipped")`.
CoreStops(required, r) == required /\ ~r.passed /\ ~r.skipped

\* A stop test that reads the flag negated.
SuiteStops_negflag(stop_on_fail, required, r) == ~stop_on_fail /\ required /\ ~r.passed /\ ~r.skipped

\* A stop test that forgets --stop-on-fail.
SuiteStops_always(stop_on_fail, required, r) == required /\ ~r.passed /\ ~r.skipped

\* A stop test that forgets the required flag.
SuiteStops_anycheck(stop_on_fail, required, r) == stop_on_fail /\ ~r.passed /\ ~r.skipped

\* verify_all.py line 276: `args.stop_on_fail and required and not result["passed"]
\* and not result.get("skipped")`.
SuiteStops(stop_on_fail, required, r) == stop_on_fail /\ required /\ ~r.passed /\ ~r.skipped

\* ------------------------------------------------------------ category gates

\* A gate that forgets the URL.
PerfEnabled_nourl(a) == ~a.skip

\* checklist.py line 190: `if args.url and not args.skip_performance`.
PerfEnabled(a) == Truthy(a.url) /\ ~a.skip

\* A suite test that forgets --no-e2e.
SuiteSkipped_noflag(suite, a) == suite.requires_url /\ ~Truthy(a.url)

\* verify_all.py lines 260-265: the two `continue` tests of a suite.
SuiteSkipped(suite, a) ==
    \/ suite.requires_url /\ ~Truthy(a.url)
    \/ a.skip /\ suite.category = "E2E Testing"

\* ------------------------------------------------------------------- Init

\* The settings of a run.  project_exists: project_path.exists().  url: --url.
\* skip: --skip-performance (core), --no-e2e (full).  stop_on_fail: whether
\* the run is to stop at a failed required check; verify_all.py takes it from
\* --stop-on-fail, checklist.py has no option for it and never reads it.
Args == [project_exists : BOOLEAN, url : Urls, skip : BOOLEAN, stop_on_fail : BOOLEAN]

Init ==
    /\ mode \in {"core", "full"}
    /\ args \in Args
    /\ pc = "start"
    /\ cat = 0
    /\ idx = 0
    /\ results = << >>
    /\ procs = << >>
    /\ cmds = << >>
    /\ reports = << >>
    /\ verdict = None
    /\ aborted = FALSE
    /\ children = {}
    /\ exit_code = NoExit

\* The environment's answers, within the bound on non-silent outcomes.
Answers == { p \in ProcOutcomes : Quiet(p) \/ Faults(procs) < MaxFaults }

\* `if not script_path.exists()`: the script is missing.
Missing == { p \in Answers : p.kind = "absent" }

\* A subprocess.run without timeout, waiting for a child that never ends.
Returns_neverends == {}

\* The ways subprocess.run ends once the script was found.
Returns == { p \in Answers : p.kind # "absent" }

\* ------------------------------------------------------------ checklist.py

\* main, lines 147-174: parse, test the project path, `results = []`.
CoreStart ==
    /\ mode = "core" /\ pc = "start"
    /\ IF ~args.project_exists
       THEN /\ exit_code' = 1
            /\ pc' = "exited"
            /\ idx' = idx
       ELSE /\ exit_code' = exit_code
            /\ pc' = "core"
            /\ idx' = 1
    /\ UNCHANGED << mode, args, cat, results, procs, cmds, reports, verdict, aborted, children >>

\* main, lines 181-187: the result of a core check is appended and the
\* stop test is made.
CoreRecord(c, p) ==
    LET r == checklist_run_script(c.name, p)
        rs == Append(results, r)
    IN /\ results' = rs
       /\ procs' = Append(procs, p)
       /\ IF CoreStops(c.required, r)
          THEN /\ reports' = Append(reports, rs)
               /\ verdict' = VerdictOf(print_summary(rs))
               /\ aborted' = TRUE
               /\ exit_code' = 1
               /\ pc' = "exited"
               /\ idx' = idx
          ELSE /\ idx' = idx + 1
               /\ pc' = IF idx = Len(CORE_CHECKS) THEN "perf_gate" ELSE "core"
               /\ UNCHANGED << reports, verdict, aborted, exit_code >>

\* main, lines 178-180, and run_script up to the call of subprocess.run: a
\* missing script gives its skipped result at once, a script that is there
\* is started.
CoreCheck ==
    /\ mode = "core" /\ pc = "core"
    /\ \E found \in BOOLEAN :
         IF found
         THEN /\ cmds' = LogCmd(cmds, CoreItem(idx).name, CoreItem(idx).script, None)
              /\ children' = children \cup {CoreItem(idx).name}
              /\ pc' = "core_wait"
              /\ UNCHANGED << idx, results, procs, reports, verdict, aborted, exit_code >>
         ELSE /\ \E p \in Missing : CoreRecord(CoreItem(idx), p)
              /\ UNCHANGED << cmds, children >>
    /\ UNCHANGED << mode, args, cat >>

\* run_script, lines 71-103, and main, lines 181-187: subprocess.run ends
\* (exit, timeout or exception) and the turn of the loop is finished.
CoreWait ==
    /\ mode = "core" /\ pc = "core_wait"
    /\ \E p \in Returns : CoreRecord(CoreItem(idx), p)
    /\ children' = Reap(children, CoreItem(idx).name)
    /\ UNCHANGED << mode, args, cat, cmds >>

\* main, line 190: the test that guards the performance loop.
PerfGate ==
    /\ mode = "core" /\ pc = "perf_gate"
    /\ IF PerfEnabled(args)
       THEN pc' = "perf" /\ idx' = 1
       ELSE pc' = "summary" /\ idx' = idx
    /\ UNCHANGED << mode, args, cat, results, procs, cmds, reports, verdict, aborted, children, exit_code >>

\* A performance loop that is left at a failed required check.
PerfRecord_breaks(c, p) ==
    /\ results' = Append(results, checklist_run_script(c.name, p))
    /\ procs' = Append(procs, p)
    /\ idx' = idx + 1
    /\ pc' = IF idx = Len(PERFORMANCE_CHECKS) \/ CoreStops(c.required, checklist_run_script(c.name, p))
             THEN "summary" ELSE "perf"

\* main, lines 193-195: the result of a performance check is appended; the
\* loop unpacks `required` and has no statement that reads it.
PerfRecord(c, p) ==
    /\ results' = Append(results, checklist_run_script(c.name, p))
    /\ procs' = Append(procs, p)
    /\ idx' = idx + 1
    /\ pc' = IF idx = Len(PERFORMANCE_CHECKS) THEN "summary" ELSE "perf"

\* main, lines 192-193, and run_script up to the call of subprocess.run.
PerfCheck ==
    /\ mode = "core" /\ pc = "perf"
    /\ \E found \in BOOLEAN :
         IF found
         THEN /\ cmds' = LogCmd(cmds, PerfItem(idx).name, PerfItem(idx).script, args.url)
              /\ children' = children \cup {PerfItem(idx).name}
              /\ pc' = "perf_wait"
              /\ UNCHANGED << idx, results, procs >>
         ELSE /\ \E p \in Missing : PerfRecord(PerfItem(idx), p)
              /\ UNCHANGED << cmds, children >>
    /\ UNCHANGED << mode, args, cat, reports, verdict, aborted, exit_code >>

\* run_script, lines 71-103, and main, lines 193-195: subprocess.run ends and
\* the turn of the loop is finished.
PerfWait ==
    /\ mode = "core" /\ pc = "perf_wait"
    /\ \E p \in Returns : PerfRecord(PerfItem(idx), p)
    /\ children' = Reap(children, PerfItem(idx).name)
    /\ UNCHANGED << mode, args, cat, cmds, reports, verdict, aborted, exit_code >>

\* An end of main that exits on a failure without printing the summary.
CoreSummary_silent ==
    /\ mode = "core" /\ pc = "summary"
    /\ IF failed_count(results) > 0
       THEN reports' = reports /\ verdict' = verdict
       ELSE reports' = Append(reports, results) /\ verdict' = "passed"
    /\ exit_code' = IF failed_count(results) > 0 THEN 1 ELSE 0
    /\ pc' = "exited"
    /\ UNCHANGED << mode, args, cat, idx, results, procs, cmds, aborted, children >>

\* main, lines 197-200: print_summary and sys.exit.
CoreSummary ==
    /\ mode = "core" /\ pc = "summary"
    /\ reports' = Append(reports, results)
    /\ verdict' = VerdictOf(print_summary(results))
    /\ exit_code' = IF print_summary(results) THEN 0 ELSE 1
    /\ pc' = "exited"
    /\ UNCHANGED << mode, args, cat, idx, results, procs, cmds, aborted, children >>

\* ------------------------------------------------------------ verify_all.py

\* The outer loop's move to the suite after suite number k.
AfterSuite(k) == IF k = Len(VERIFICATION_SUITE) THEN "report" ELSE "suite"

\* A parser that declares --url without required=True.
UrlOptionMissing_optional(a) == FALSE

\* verify_all.py line 234: --url is required=True, so parse_args (line 238)
\* ends the process with argparse's usage error when it is not given.
UrlOptionMissing(a) == a.url = None

\* main, lines 223-252: parse (--url is required=True: argparse exits 2
\* without it), test the project path, `results = []`.
FullStart ==
    /\ mode = "full" /\ pc = "start"
    /\ IF UrlOptionMissing(args)
       THEN /\ exit_code' = 2
            /\ pc' = "exited"
            /\ cat' = cat
       ELSE IF ~args.project_exists
       THEN /\ exit_code' = 1
            /\ pc' = "exited"
            /\ cat' = cat
       ELSE /\ exit_code' = exit_code
            /\ pc' = "suite"
            /\ cat' = 1
    /\ UNCHANGED << mode, args, idx, results, procs, cmds, reports, verdict, aborted, children >>

\* main, lines 255-267: the head of one turn of the loop over the suites.
SuiteEnter ==
    /\ mode = "full" /\ pc = "suite"
    /\ IF SuiteSkipped(SuiteItem(cat), args)
       THEN /\ cat' = cat + 1
            /\ pc' = AfterSuite(cat)
            /\ idx' = idx
       ELSE /\ cat' = cat
            /\ pc' = "checks"
            /\ idx' = 1
    /\ UNCHANGED << mode, args, results, procs, cmds, reports, verdict, aborted, children, exit_code >>

\* main, lines 272-279: the result of a check is given its category and
\* appended, and the stop test is made.
SuiteRecord(suite, c, p) ==
    LET r == verify_run_script(c.name, suite.category, p)
        rs == Append(results, r)
    IN /\ results' = rs
       /\ procs' = Append(procs, p)
       /\ IF SuiteStops(args.stop_on_fail, c.required, r)
          THEN /\ reports' = Append(reports, rs)
               /\ verdict' = VerdictOf(print_final_report(rs))
               /\ aborted' = TRUE
               /\ exit_code' = 1
               /\ pc' = "exited"
               /\ idx' = idx
               /\ cat' = cat
          ELSE /\ IF idx = Len(suite.checks)
                  THEN cat' = cat + 1 /\ pc' = AfterSuite(cat) /\ idx' = idx
                  ELSE cat' = cat /\ pc' = "checks" /\ idx' = idx + 1
               /\ UNCHANGED << reports, verdict, aborted, exit_code >>

\* main, lines 269-271, and run_script up to the call of subprocess.run.
SuiteCheck ==
    /\ mode = "full" /\ pc = "checks"
    /\ \E found \in BOOLEAN :
         LET suite == SuiteItem(cat)
             c == suite.checks[idx]
         IN IF found
            THEN /\ cmds' = LogCmd(cmds, c.name, c.script, args.url)
                 /\ children' = children \cup {c.name}
                 /\ pc' = "checks_wait"
                 /\ UNCHANGED << cat, idx, results, procs, reports, verdict, aborted, exit_code >>
            ELSE /\ \E p \in Missing : SuiteRecord(suite, c, p)
                 /\ UNCHANGED << cmds, children >>
    /\ UNCHANGED << mode, args >>

\* run_script, lines 118-150, and main, lines 272-279: subprocess.run ends
\* and the turn of the loop is finished.
SuiteWait ==
    /\ mode = "full" /\ pc = "checks_wait"
    /\ \E p \in Returns : SuiteRecord(SuiteItem(cat), SuiteItem(cat).checks[idx], p)
    /\ children' = Reap(children, SuiteItem(cat).checks[idx].name)
    /\ UNCHANGED << mode, args, cmds >>

\* main, lines 281-284: print_final_report and sys.exit.
FullReport ==
    /\ mode = "full" /\ pc = "report"
    /\ reports' = Append(reports, results)
    /\ verdict' = VerdictOf(print_final_report(results))
    /\ exit_code' = IF print_final_report(results) THEN 0 ELSE 1
    /\ pc' = "exited"
    /\ UNCHANGED << mode, args, cat, idx, results, procs, cmds, aborted, children >>

\* ------------------------------------------------------------ specification

Next ==
    \/ CoreStart
    \/ CoreCheck
    \/ CoreWait
    \/ PerfGate
    \/ PerfCheck
    \/ PerfWait
    \/ CoreSummary
    \/ FullStart
    \/ SuiteEnter
    \/ SuiteCheck
    \/ SuiteWait
    \/ FullReport

Spec == Init /\ [][Next]_vars

\* The run as the interpreter executes it: main goes on to its next statement,
\* and subprocess.run returns, by the child's end, by its timeout (300 s in
\* checklist.py, 600 s in verify_all.py) or by an exception.
FairSpec == Spec /\ WF_vars(Next)

TypeOK ==
    /\ mode \in {"core", "full"}
    /\ args \in Args
    /\ pc \in {"start", "core", "core_wait", "perf_gate", "perf", "perf_wait", "summary",
              "suite", "checks", "checks_wait", "report", "exited"}
    /\ IsFiniteSet(children)
    /\ Len(procs) = Len(results)
    /\ exit_code \in {NoExit, 0, 1, 2}
    /\ verdict \in {None, "passed", "failed"}

\* ======================================================================
\* Vocabulary of the properties
\* ======================================================================

\* The outcome of a check, from what its process did.
OutcomeOf(p) ==
    IF p.kind = "absent" THEN "Skipped"
    ELSE IF p.kind = "timeout" THEN "TimedOut"
    ELSE IF p.kind = "raised" THEN "Errored"
    ELSE IF p.rc = 0 THEN "Passed" ELSE "Failed"

Bad(p) == OutcomeOf(p) \in {"Failed", "TimedOut", "Errored"}

\* The catalog of a mode in catalog order, each check with its category and
\* whether that category needs a URL.
Entry(c, category, requires_url) ==
    [name |-> c.name, required |-> c.required, category |-> category, requires_url |-> requires_url]

RECURSIVE FlattenSuites(_)
FlattenSuites(ss) ==
    IF ss = << >> THEN << >>
    ELSE [i \in 1..Len(Head(ss).checks) |->
             Entry(Head(ss).checks[i], Head(ss).category, Head(ss).requires_url)]
         \o FlattenSuites(Tail(ss))

CoreCatalog ==
    [i \in 1..Len(CORE_CHECKS) |-> Entry(CORE_CHECKS[i], "Core", FALSE)]
    \o [i \in 1..Len(PERFORMANCE_CHECKS) |-> Entry(PERFORMANCE_CHECKS[i], "Performance", TRUE)]

FullCatalog == FlattenSuites(VERIFICATION_SUITE)

Catalog(m) == IF m = "core" THEN CoreCatalog ELSE FullCatalog

\* The names of the checks a catalog marks required, and of those it puts in
\* a category that needs a URL.
RequiredNames(c) == { c[i].name : i \in { j \in 1..Len(c) : c[j].required } }

UrlGatedNames(c) == { c[i].name : i \in { j \in 1..Len(c) : c[j].requires_url } }

CoreRequired == RequiredNames(CoreCatalog)

FullRequired == RequiredNames(FullCatalog)

CoreUrlGated == UrlGatedNames(CoreCatalog)

FullUrlGated == UrlGatedNames(FullCatalog)

\* A URL was supplied for the run.
UrlSupplied == args.url # None /\ args.url # ""

\* A check is gated out by the URL precondition or by the run's skip flag
\* (--skip-performance gates the performance checks of the core checklist,
\* --no-e2e gates the E2E category of the full suite).
GatedOut(e) ==
    \/ e.requires_url /\ ~UrlSupplied
    \/ args.skip /\ e.category = (IF mode = "core" THEN "Performance" ELSE "E2E Testing")

NotGated(e) == ~GatedOut(e)

\* The checks of the run that are not gated out, in catalog order.
Expected == SelectSeq(Catalog(mode), NotGated)

Names(rs) == [i \in 1..Len(rs) |-> rs[i].name]

\* The required flag the catalog gives the check of that name.
RequiredCheck(name) == name \in (IF mode = "core" THEN CoreRequired ELSE FullRequired)

\* The run has ended after considering at least one check.
Ended == pc = "exited" /\ results # << >>

\* Every check that is not gated out has its result in the list.
AllConsidered == Names(results) = Names(Expected)

\* ======================================================================
\* Properties
\* ======================================================================

\* C1: in every run of either orchestrator the reported verdict is "passed"
\* if and only if no result of the report has a Failed, TimedOut or Errored
\* outcome; Skipped results and absent checks never make it "failed".
C1_VerdictIffNoFailure ==
    verdict # None =>
        /\ reports # << >>
        /\ reports[Len(reports)] = results
        /\ verdict \in {"passed", "failed"}
        /\ (verdict = "passed") <=> (\A i \in 1..Len(procs) : ~Bad(procs[i]))

\* C1 witness: a report with a Skipped result and no failure, verdict passed.
C1_Witness ==
    /\ verdict = "passed"
    /\ Len(results) >= 5
    /\ \E i \in 1..Len(procs) : procs[i].kind = "absent"

\* C2: once a check has been considered, the exit code of a run is 0 exactly
\* when the verdict is "passed" and 1 otherwise, on the normal path and on
\* the early-abort path.
C2_ExitCodeMatchesVerdict ==
    Ended =>
        /\ verdict # None
        /\ exit_code = (IF verdict = "passed" THEN 0 ELSE 1)

\* C2 witness: a run that left through the early abort with exit code 1.
C2_Witness == Ended /\ aborted /\ exit_code = 1 /\ verdict = "failed"

\* The last result of the list is that of a required check that was run and
\* failed, timed out or raised.
LastRequiredFailed ==
    /\ results # << >>
    /\ RequiredCheck(results[Len(results)].name)
    /\ Bad(procs[Len(procs)])
    /\ ~results[Len(results)].passed
    /\ ~results[Len(results)].skipped

\* C3 (as claimed): with the stop policy enabled, a required check whose
\* result is Failed, TimedOut or Errored is the last check of the report.
C3_StopPolicyCutsLaterChecks ==
    args.stop_on_fail =>
        \A i \in 1..Len(results) :
            (RequiredCheck(results[i].name) /\ Bad(procs[i])) => i = Len(results)

C5_OptionalFailureNeverHalts ==
    pc = "exited" =>
        /\ \A i \in 1..Len(results) :
              (~RequiredCheck(results[i].name) /\ Bad(procs[i]))
                  => (i < Len(results) \/ AllConsidered)
        /\ results # << >> => (AllConsidered \/ (aborted /\ LastRequiredFailed))

\* C5 witness: an ended run in which a failed optional check is followed by
\* another check.
C5_Witness ==
    /\ Ended
    /\ \E i \in 1..Len(results) :
          ~RequiredCheck(results[i].name) /\ Bad(procs[i]) /\ i < Len(results)

C7_MissingScriptIsSkipped ==
    \A i \in 1..Len(results) :
        procs[i].kind = "absent" =>
            /\ results[i].skipped
            /\ ~(~results[i].passed /\ ~results[i].skipped)
            /\ aborted => i < Len(results)
            /\ pc = "exited" => (i < Len(results) \/ AllConsidered)

\* C7 witness: the required Security Scan is absent and the run went on to
\* the end of the core checks.
C7_Witness ==
    /\ Ended /\ ~aborted
    /\ procs[1].kind = "absent"
    /\ Len(results) >= Len(CORE_CHECKS)

RECURSIVE IsSubseq(_, _)
IsSubseq(a, b) ==
    IF a = << >> THEN TRUE
    ELSE IF b = << >> THEN FALSE
    ELSE IF Head(a) = Head(b) THEN IsSubseq(Tail(a), Tail(b))
    ELSE IsSubseq(a, Tail(b))

\* C8: the results are in catalog order: their names are a subsequence (the
\* leading part) of the catalog restricted to the categories not skipped, and
\* each result is determined by its check and that check's outcome.
C8_ReportInCatalogOrder ==
    LET e == Expected IN
    /\ IsSubseq(Names(results), Names(e))
    /\ Len(results) <= Len(e)
    /\ \A i \in 1..Len(results) :
          /\ results[i].name = e[i].name
          /\ results[i].skipped = (OutcomeOf(procs[i]) = "Skipped")
          /\ results[i].passed = (OutcomeOf(procs[i]) \in {"Passed", "Skipped"})

\* C8 witness: a full-suite run with --no-e2e that reported the eight checks
\* of the other categories.
C8_Witness ==
    /\ Ended /\ mode = "full" /\ args.skip /\ UrlSupplied
    /\ Len(results) = 8

\* The check belongs to a category that needs a URL.
UrlGated(name) == name \in (IF mode = "core" THEN CoreUrlGated ELSE FullUrlGated)

\* C9: without a URL no check of a URL-gated category is run or reported,
\* not even as Skipped.
C9_NoUrlNoGatedResults ==
    ~UrlSupplied =>
        /\ \A i \in 1..Len(results) : ~UrlGated(results[i].name)
        /\ \A j \in 1..Len(cmds) : ~UrlGated(cmds[j].name)

\* C9 witness: a run without URL that ended normally after its ungated checks.
C9_Witness ==
    /\ Ended /\ ~aborted /\ ~UrlSupplied /\ ~args.skip
    /\ Len(results) >= Len(CORE_CHECKS)

\* The scenario of C10: core mode, valid project path, no URL, stop-on-fail,
\* Security Scan present and exiting 0, Lint Check present and exiting 1.
Scenario10 ==
    /\ mode = "core" /\ args.project_exists /\ args.url = None /\ args.stop_on_fail
    /\ Len(procs) >= 2
    /\ procs[1].kind = "exit" /\ procs[1].rc = 0
    /\ procs[2].kind = "exit" /\ procs[2].rc = 1

\* C10: in that scenario the report holds exactly two results, Security Scan
\* passed and Lint Check failed, and the exit code is 1.
C10_CoreStopsAtLint ==
    Scenario10 =>
        /\ pc = "exited" /\ exit_code = 1
        /\ Len(results) = 2
        /\ reports = << results >>
        /\ results[1].name = "Security Scan" /\ results[1].passed /\ ~results[1].skipped
        /\ results[2].name = "Lint Check" /\ ~results[2].passed /\ ~results[2].skipped

\* C10 witness: the scenario has run to its exit.
C10_Witness == Scenario10 /\ pc = "exited" /\ Len(results) = 2

\* The scenario of C11: that of C10 with stop-on-fail disabled.
Scenario11 ==
    /\ mode = "core" /\ args.project_exists /\ args.url = None /\ ~args.stop_on_fail
    /\ Len(procs) >= 2
    /\ procs[1].kind = "exit" /\ procs[1].rc = 0
    /\ procs[2].kind = "exit" /\ procs[2].rc = 1

C12_FullWithoutUrlIsUsageError ==
    (mode = "full" /\ args.url = None) =>
        /\ results = << >> /\ procs = << >> /\ cmds = << >> /\ reports = << >>
        /\ pc \in {"start", "exited"}
        /\ pc = "exited" => (exit_code = 2 /\ exit_code # 1)

\* C12 witness: such a run has exited.
C12_Witness == mode = "full" /\ args.url = None /\ pc = "exited" /\ exit_code = 2

\* C13 (as claimed): with a project path that does not exist a run exits
\* before any check is run, with exit code 2.
C13_MissingProjectExits2 ==
    (~args.project_exists /\ pc = "exited") =>
        /\ results = << >> /\ cmds = << >>
        /\ exit_code = 2

\* C14: a check whose process exceeds its timeout gets a result that is
\* neither passed nor skipped, with detail "Timeout"; the verdict of the run
\* is "failed"; and the timeout itself does not end the run: unless the run
\* aborts, the checks after it that are not gated out are still considered.
C14_TimeoutIsFailureAndRunGoesOn ==
    \A i \in 1..Len(results) :
        procs[i].kind = "timeout" =>
            /\ ~results[i].passed /\ ~results[i].skipped
            /\ results[i].error = "Timeout"
            /\ verdict # None => verdict = "failed"
            /\ pc = "exited" => (exit_code = 1 /\ verdict = "failed")
            /\ pc = "exited" => (AllConsidered \/ (aborted /\ LastRequiredFailed))
            /\ (pc = "exited" /\ i = Len(results) /\ ~AllConsidered)
                   => RequiredCheck(results[i].name)

\* C14 witness: an ended run in which a timed-out check is followed by
\* another check.
C14_Witness ==
    /\ Ended
    /\ \E i \in 1..Len(results) : procs[i].kind = "timeout" /\ i < Len(results)

Named(n) == \E i \in 1..Len(results) : results[i].name = n

Launched(n) == \E j \in 1..Len(cmds) : cmds[j].name = n

\* C15 (as claimed): with the skip directive set neither the Lighthouse
\* Audit nor the Playwright E2E check is run or reported, in either mode.
C15_SkipFlagSkipsPerformanceAndE2E ==
    args.skip =>
        /\ ~Named("Lighthouse Audit") /\ ~Launched("Lighthouse Audit")
        /\ ~Named("Playwright E2E") /\ ~Launched("Playwright E2E")

\* C15 (amended): with --skip-performance the core checklist runs and reports
\* neither check; with --no-e2e the full suite skips only the E2E Testing
\* category: Playwright E2E is neither run nor reported, while the
\* Lighthouse Audit is still reported whenever a URL is supplied and the run
\* does not abort.
C15_SkipFlagPerMode ==
    args.skip =>
        /\ ~Named("Playwright E2E") /\ ~Launched("Playwright E2E")
        /\ mode = "core" => (~Named("Lighthouse Audit") /\ ~Launched("Lighthouse Audit"))
        /\ (mode = "full" /\ Ended /\ UrlSupplied /\ (~aborted \/ Len(results) = 8))
              => (Named("Lighthouse Audit") /\ results[Len(results)].name = "Lighthouse Audit")

\* C15 witness: a full-suite run with --no-e2e and a URL that ran the
\* Lighthouse Audit and ended without the Playwright E2E check.
C15_Witness ==
    /\ mode = "full" /\ args.skip /\ UrlSupplied /\ Ended /\ ~aborted
    /\ Launched("Lighthouse Audit") /\ ~Named("Playwright E2E")

C17_ReportBeforeNonZeroExit ==
    (Ended /\ exit_code # 0) =>
        /\ Len(reports) = 1
        /\ reports[1] = results
        /\ verdict = "failed"
        /\ \E i \in 1..Len(reports[1]) : ~reports[1][i].passed /\ ~reports[1][i].skipped

\* C17 witness: a run that completed all its checks and exits 1.
C17_Witness == Ended /\ ~aborted /\ exit_code = 1 /\ Len(reports) = 1

\* C18: a fault raised while launching or waiting on a check's process
\* becomes a result that is neither passed nor skipped and carries the
\* exception's message; the run goes on or aborts by the normal policy and
\* ends with a report.
C18_LaunchFaultBecomesResult ==
    \A i \in 1..Len(results) :
        procs[i].kind = "raised" =>
            /\ ~results[i].passed /\ ~results[i].skipped
            /\ results[i].error = procs[i].stderr /\ results[i].error # ""
            /\ pc = "exited" => /\ reports = << results >>
                                /\ verdict = "failed"
                                /\ AllConsidered \/ (aborted /\ LastRequiredFailed)

\* C18 witness: an ended run in which a launch fault of an optional check is
\* followed by another check.
C18_Witness ==
    /\ Ended /\ ~aborted
    /\ \E i \in 1..Len(results) : procs[i].kind = "raised" /\ i < Len(results)

\* C19: within a run no check name appears twice in the report and no check
\* is launched twice; each check considered has one result.
C19_OneResultPerCheck ==
    /\ \A i, j \in 1..Len(results) : results[i].name = results[j].name => i = j
    /\ \A i, j \in 1..Len(cmds) : cmds[i].name = cmds[j].name => i = j
    /\ \A j \in 1..Len(cmds) : Named(cmds[j].name) \/ cmds[j].name \in children
    /\ Len(cmds) = Cardinality({ i \in 1..Len(procs) : procs[i].kind # "absent" })
                   + Cardinality(children)
    /\ Len(results) = Len(procs)

\* C19 witness: a core run with a URL that reported all seven checks, a
\* failed one among them.
C19_Witness ==
    /\ Ended /\ mode = "core" /\ Len(results) = 7
    /\ \E i \in 1..Len(results) : Bad(procs[i])

\* The stop decision of verify_all.py on the i-th result of this run.
FullWouldStop(i) ==
    SuiteStops(args.stop_on_fail, RequiredCheck(results[i].name), results[i])

C21_OneChildAtATime ==
    /\ Cardinality(children) <= 1
    /\ \A j \in 1..Len(cmds) :
         IF j = Len(cmds) /\ children # {}
         THEN children = {cmds[j].name} /\ ~Named(cmds[j].name)
         ELSE Named(cmds[j].name)
    /\ \A i \in 1..Len(results) :
         results[i] = IF mode = "core"
                      THEN checklist_run_script(results[i].name, procs[i])
                      ELSE verify_run_script(results[i].name, results[i].category, procs[i])

\* C21 witness: a child process is running while the result list already
\* holds the results of two earlier checks, one of them launched.
C21_Witness ==
    /\ children # {} /\ Len(results) >= 2
    /\ \E i \in 1..Len(procs) : procs[i].kind = "exit"

\* ----------------------------------------------------------------- C22

\* The state of a run: NotStarted until `results = []`, Running inside the
\* loops, CompletedAllChecks once the loops are left by their end,
\* AbortedOnRequiredFailure once the stop branch is taken; Rejected is an
\* exit from argument validation, which starts no run.
RunState ==
    IF pc = "start" THEN "NotStarted"
    ELSE IF pc \in {"summary", "report"} THEN "CompletedAllChecks"
    ELSE IF pc # "exited" THEN "Running"
    ELSE IF aborted THEN "AbortedOnRequiredFailure"
    ELSE IF reports # << >> THEN "CompletedAllChecks"
    ELSE "Rejected"

\* The two end states of a run.
EndStates == {"CompletedAllChecks", "AbortedOnRequiredFailure"}

\* C22: a run goes NotStarted -> Running -> CompletedAllChecks or
\* AbortedOnRequiredFailure; once in an end state no check is started, no
\* result is appended and the other end state is not reached; and the run
\* ends with exactly one report, made over the final result list.
C22_RunStateMachine ==
    /\ [](aborted => pc = "exited")
    /\ [](RunState \in EndStates => children = {} /\ Len(reports) <= 1)
    /\ [](RunState \in EndStates /\ pc = "exited" => reports = << results >>)
    /\ [][ /\ RunState = "NotStarted" => RunState' \in {"Running", "Rejected"}
           /\ RunState = "Running" => RunState' \in {"Running"} \cup EndStates
           /\ RunState \in EndStates =>
                 /\ RunState' = RunState
                 /\ results' = results /\ cmds' = cmds /\ children' = children
                 /\ pc = "exited" => reports' = reports
           /\ RunState = "Rejected" => RunState' = "Rejected" ]_vars

\* C22 witness: a run that ended in AbortedOnRequiredFailure after checks
\* that passed, its one report made.
C22_Witness ==
    /\ RunState = "AbortedOnRequiredFailure" /\ Len(results) >= 2 /\ Len(reports) = 1

\* C22, second witness state: a run that completed all checks and reported.
C22_WitnessCompleted ==
    /\ RunState = "CompletedAllChecks" /\ pc = "exited" /\ Len(results) = 9

\* ----------------------------------------------------------------- C23

\* C23: when the script exists and its process returns (no timeout, no
\* launch fault), the result is passed exactly when the exit code is 0, it is
\* never skipped, and for a non-zero exit code its failure detail is the
\* captured stderr.
C23_PassedIffExitZero ==
    \A i \in 1..Len(results) :
        procs[i].kind = "exit" =>
            /\ results[i].passed <=> procs[i].rc = 0
            /\ ~results[i].skipped
            /\ procs[i].rc # 0 => results[i].error = procs[i].stderr

\* C23 witness: a run holding the result of a process that exited 0 and the
\* result of one that exited 1 with text on stderr.
C23_Witness ==
    /\ \E i \in 1..Len(results) : procs[i].kind = "exit" /\ procs[i].rc = 0
    /\ \E i \in 1..Len(results) :
         procs[i].kind = "exit" /\ procs[i].rc = 1 /\ procs[i].stderr # ""

\* ----------------------------------------------------------------- C24

\* The checks meant to receive the URL.
UrlAwareChecks == {"Lighthouse Audit", "Playwright E2E"}

\* C24: every check is launched with the project path as the first argument
\* of its script; a URL is appended, as the last argument, only to the
\* Lighthouse and Playwright checks and only when a URL was supplied, and then
\* it is the URL supplied; every other check, in both modes, gets the project
\* path alone.
C24_UrlOnlyToUrlAwareChecks ==
    \A j \in 1..Len(cmds) :
        LET argv == cmds[j].argv
        IN /\ Len(argv) \in {3, 4}
           /\ argv[1] = "python" /\ argv[3] = "<project>"
           /\ Len(argv) = 4 =>
                 /\ cmds[j].name \in UrlAwareChecks
                 /\ UrlSupplied /\ argv[4] = args.url
           /\ cmds[j].name \notin UrlAwareChecks => argv = << "python", argv[2], "<project>" >>
           /\ cmds[j].name \in UrlAwareChecks /\ UrlSupplied => Len(argv) = 4

\* C24 witness: a full run given a URL that launched the Security Scan with
\* the project path alone and the Lighthouse Audit with the URL appended.
C24_Witness ==
    /\ mode = "full" /\ UrlSupplied
    /\ \E j \in 1..Len(cmds) : cmds[j].name = "Security Scan" /\ Len(cmds[j].argv) = 3
    /\ \E j \in 1..Len(cmds) : cmds[j].name = "Lighthouse Audit" /\ Len(cmds[j].argv) = 4

\* ----------------------------------------------------------------- C25

\* C25: in every result record a failure detail is there exactly when the
\* outcome is Failed, TimedOut or Errored: passed and skipped results carry
\* none, and failed, timed-out and errored results carry a non-empty one.
C25_DetailIffBadOutcome ==
    \A i \in 1..Len(results) : Truthy(results[i].error) <=> Bad(procs[i])

\* ----------------------------------------------------------------- C26

\* The failure-detail lines of the report of the run.
DetailLines(rs) ==
    IF mode = "core" THEN summary_detail_lines(rs) ELSE report_detail_lines(rs)

\* C26: the final report prints one failure-detail line for every result that
\* is neither passed nor skipped, and for no other result, in the summary of
\* the core checklist and in the report of the full suite.
C26_DetailLinePerFailure ==
    \A k \in 1..Len(reports) : DetailLines(reports[k]) = report_failed_names(reports[k])

\* ----------------------------------------------------------------- C27

\* C27: in full mode, a run that passed argument validation and considered
\* at least one check has a usable URL, and when it completes it has a result
\* for the Lighthouse Audit (the Performance category was not passed over for
\* want of a URL); so too when --url was given the empty string.
C27_FullRunHasUsableUrl ==
    mode = "full" /\ (results # << >> \/ children # {}) =>
        /\ Truthy(args.url)
        /\ pc = "exited" /\ ~aborted => Named("Lighthouse Audit")

\* ----------------------------------------------------------------- C28

\* The number of checks so far whose outcome is one of the given ones.
Outcomes(kinds) == Cardinality({ i \in 1..Len(procs) : OutcomeOf(procs[i]) \in kinds })

\* C28: in the summary of either orchestrator, after any sequence of check
\* outcomes, each result is counted in exactly one of passed, failed and
\* skipped: the three counts add up to the number of results, the skipped
\* count is the number of skipped checks, and no skipped check is counted
\* with the passed or the failed.
C28_ThreeBucketsPartition ==
    /\ passed_count(results) + failed_count(results) + skipped_count(results) = Len(results)
    /\ report_passed(results) + report_failed(results) + report_skipped(results) = Len(results)
    /\ passed_count(results) = Outcomes({"Passed"})
    /\ failed_count(results) = Outcomes({"Failed", "TimedOut", "Errored"})
    /\ skipped_count(results) = Outcomes({"Skipped"})
    /\ report_passed(results) = passed_count(results)
    /\ report_failed(results) = failed_count(results)
    /\ report_skipped(results) = skipped_count(results)

\* C28 witness: a reported run whose results hold a passed, a failed and a
\* skipped check.
C28_Witness ==
    /\ pc = "exited" /\ reports = << results >>
    /\ Outcomes({"Passed"}) > 0 /\ Outcomes({"Skipped"}) > 0
    /\ Outcomes({"Failed", "TimedOut", "Errored"}) > 0

\* ----------------------------------------------------------------- C29

\* A performance check has been started or has a result.
PerfBegun ==
    \E n \in {PERFORMANCE_CHECKS[i].name : i \in 1..Len(PERFORMANCE_CHECKS)} :
        Launched(n) \/ Named(n)

\* C29: in core mode the performance checks begin only with a URL, without
\* --skip-performance, and after all five core checks have their result and
\* none of them stopped the run; and a failed, timed-out or errored Lighthouse
\* Audit does not abort: the Playwright E2E check still gets its result and
\* the run exits 1 from the summary at the end.
C29_LighthouseFailureDoesNotAbort ==
    mode = "core" =>
        /\ PerfBegun =>
              /\ Truthy(args.url) /\ ~args.skip
              /\ Len(results) >= Len(CORE_CHECKS)
              /\ \A i \in 1..Len(CORE_CHECKS) :
                    /\ results[i].name = CORE_CHECKS[i].name
                    /\ ~CoreStops(CORE_CHECKS[i].required, results[i])
        /\ \A i \in 1..Len(results) :
              results[i].name = "Lighthouse Audit" /\ Bad(procs[i]) =>
                  /\ ~aborted
                  /\ pc \in {"perf", "perf_wait", "summary", "exited"}
                  /\ pc \in {"summary", "exited"} =>
                        /\ Len(results) = i + 1
                        /\ results[i + 1].name = "Playwright E2E"
                  /\ pc = "exited" =>
                        /\ reports = << results >>
                        /\ exit_code = 1

\* C29 witness: a core run with a URL whose Lighthouse Audit failed, whose
\* Playwright E2E check ran after it, and which has exited.
C29_Witness ==
    /\ mode = "core" /\ pc = "exited" /\ Len(results) = 7
    /\ Bad(procs[6]) /\ procs[7].kind = "exit"

\* ----------------------------------------------------------------- C30

\* C30: every run terminates: it reaches CompletedAllChecks or
\* AbortedOnRequiredFailure (or was rejected by argument validation) and the
\* process exits, no child left running; and on the way no catalog check is
\* executed more than once and nothing outside the catalog is executed.
C30_RunTerminates ==
    /\ <>(pc = "exited" /\ children = {} /\ RunState \in EndStates \cup {"Rejected"})
    /\ [](/\ Len(cmds) <= Len(Catalog(mode))
          /\ \A i, j \in 1..Len(cmds) : cmds[i].name = cmds[j].name => i = j
          /\ \A j \in 1..Len(cmds) : \E e \in 1..Len(Catalog(mode)) :
                Catalog(mode)[e].name = cmds[j].name)

\* C30 witness: a full run that executed all nine checks of the catalog, one
\* of which timed out and one of which failed to launch, and has exited.
C30_Witness ==
    /\ mode = "full" /\ pc = "exited" /\ Len(cmds) = 9
    /\ \E i \in 1..Len(procs) : procs[i].kind = "timeout"
    /\ \E i \in 1..Len(procs) : procs[i].kind = "raised"

====
